---- MODULE Spec2Model ----
(***************************************************************************)
(* Hotel reservation store of src/actividad_6/a01794225_A6.2.py:           *)
(* HotelReservationSystem over three JSON files (hotels.json,              *)
(* customers.json, reservations.json), with the record classes Hotel,      *)
(* Customer, Reservation and the DataManager that reads and writes files.  *)
(*                                                                         *)
(* A store instance is a record of its three lists.  The files are shared  *)
(* by every instance.  Each mutating method is one action: the in-memory   *)
(* change followed by _save_all, whose writes may fail at any of the three *)
(* files.  display_hotel and display_customer read only and are operators. *)
(* Every argument of a create_* call is a newly constructed object, and    *)
(* field values are of the annotated types (int, str), which json.dump and *)
(* json.load give back unchanged.                                          *)
(*                                                                         *)
(* Specifications:                                                         *)
(*   Spec          every method, any file write may fail                   *)
(*   SpecHotels    the hotel and reservation methods, writes succeed       *)
(*   SpecCustomers the customer methods, writes succeed                    *)
(*   SpecEmpty     every method from a store that finds no file            *)
(***************************************************************************)
EXTENDS Integers, Sequences, FiniteSets

VARIABLES
    status,     \* per instance: "absent", "ready" (constructed), "failed" (__init__
                \* raised), "raised" (a method raised out of _save_all)
    sys,        \* per instance: [hotels, customers, reservations], the lists of the object
    files,      \* content of each of the three backing files
    lastOp,     \* the last call made: method, instance, arguments, what it raised,
                \* and the object's lists and the files as they were before it
    calls       \* number of mutating calls made so far

vars == <<status, sys, files, lastOp, calls>>

-----------------------------------------------------------------------------
(* Bounds of the model *)

\* Mutating calls made in one run where every file write succeeds.
MaxCalls == 4
\* Mutating calls made in one run where a file write may fail.
MaxFaultyCalls == 2
MaxSharedCalls == 3

(* Values the calls are made with *)

Instances == {1, 2}
HotelIds == {1, 2}
CustomerIds == {1, 2}
ReservationIds == {1, 2}

\* An optional argument: absent (Python None) or a given value.
NoneStr == [some |-> FALSE, v |-> ""]
NoneInt == [some |-> FALSE, v |-> 0]
Some(x) == [some |-> TRUE, v |-> x]

\* The argument lists modify_hotel is called with: the name alone (as in
\* test_modify_hotel), location and rooms, falsy values only, nothing at all.
ModifyHotelCalls ==
    {[name |-> Some("Updated Hotel"), location |-> NoneStr, rooms |-> NoneInt],
     [name |-> NoneStr, location |-> Some("Updated City"), rooms |-> Some(20)],
     [name |-> Some(""), location |-> Some(""), rooms |-> Some(0)],
     [name |-> NoneStr, location |-> NoneStr, rooms |-> NoneInt]}

ModifyCustomerCalls ==
    {[name |-> Some("Updated User"), email |-> NoneStr],
     [name |-> NoneStr, email |-> Some("updated.user@example.com")],
     [name |-> Some(""), email |-> Some("")],
     [name |-> NoneStr, email |-> NoneStr]}

\* Python truthiness of an optional str / int argument.
TruthyStr(a) == a.some /\ a.v # ""

TruthyInt_IsNotNone(a) == a.some

TruthyInt(a) == a.some /\ a.v # 0

-----------------------------------------------------------------------------
(* Record classes *)

\* Hotel.__init__: a new hotel has no reservations.
Hotel(hotel_id, name, location, rooms) ==
    [hotel_id |-> hotel_id, name |-> name, location |-> location,
     rooms |-> rooms, reservations |-> <<>>]

Hotel_to_dict(self) ==
    [hotel_id |-> self.hotel_id, name |-> self.name, location |-> self.location,
     rooms |-> self.rooms, reservations |-> self.reservations]

Hotel_from_dict_NoReservations(data) ==
    Hotel(data.hotel_id, data.name, data.location, data.rooms)

Hotel_from_dict(data) ==
    [Hotel(data.hotel_id, data.name, data.location, data.rooms)
        EXCEPT !.reservations = data.reservations]

Customer(customer_id, name, email) ==
    [customer_id |-> customer_id, name |-> name, email |-> email]

Customer_to_dict(self) ==
    [customer_id |-> self.customer_id, name |-> self.name, email |-> self.email]

Customer_from_dict(data) ==
    Customer(data.customer_id, data.name, data.email)

Reservation(reservation_id, customer_id, hotel_id) ==
    [reservation_id |-> reservation_id, customer_id |-> customer_id,
     hotel_id |-> hotel_id]

Reservation_to_dict(self) ==
    [reservation_id |-> self.reservation_id, customer_id |-> self.customer_id,
     hotel_id |-> self.hotel_id]

Reservation_from_dict(data) ==
    Reservation(data.reservation_id, data.customer_id, data.hotel_id)

\* The objects the create_* and reserve_room calls are made with.
NewHotels == {Hotel(i, "Test Hotel", "Test City", 10) : i \in HotelIds}
NewCustomers == {Customer(i, "Test User", "test.user@example.com") : i \in CustomerIds}
NewReservations ==
    {Reservation(1, 1, 1), Reservation(1, 2, 1), Reservation(2, 1, 2), Reservation(2, 2, 1)}

-----------------------------------------------------------------------------
(* Files and the DataManager *)

HOTELS_FILE == "hotels.json"
CUSTOMERS_FILE == "customers.json"
RESERVATIONS_FILE == "reservations.json"
FileNames == {HOTELS_FILE, CUSTOMERS_FILE, RESERVATIONS_FILE}

\* What a file may hold.  kind "array": a JSON array, items its elements;
\* "object": a JSON object, items its keys; "number": a JSON scalar;
\* "notjson": text that is no JSON document (an empty or cut-off file too);
\* "notutf8": bytes that are no UTF-8 text; "missing": no such file.
Missing == [kind |-> "missing", items |-> <<>>]
NotJson == [kind |-> "notjson", items |-> <<>>]
NotUtf8 == [kind |-> "notutf8", items |-> <<>>]
JsonNumber == [kind |-> "number", items |-> <<>>]
JsonObject(keys) == [kind |-> "object", items |-> keys]
JsonArray(items) == [kind |-> "array", items |-> items]

\* DataManager.save_to_file where the write succeeds: the file holds the array.
save_to_file(data) == JsonArray(data)

\* DataManager.load_from_file: the value json.load returns; [] for a missing
\* file and for one json.load rejects with JSONDecodeError.  Reading bytes
\* that are no UTF-8 raises UnicodeDecodeError, which the except clause does
\* not name: the content is passed on, for Iterate to report.
load_from_file(content) ==
    IF content.kind = "missing" THEN JsonArray(<<>>)
    ELSE IF content.kind = "notjson" THEN JsonArray(<<>>)
    ELSE content

\* for d in loaded: the elements the comprehensions of __init__ go through.
\* Iterating a number raises TypeError; iterating an object yields its keys,
\* and from_dict raises TypeError on the first (a str), so only an object
\* without keys gets through, as no element at all.
Iterate(loaded) ==
    CASE loaded.kind = "array" -> [raised |-> "none", items |-> loaded.items]
      [] loaded.kind = "object" ->
            [raised |-> IF Len(loaded.items) = 0 THEN "none" ELSE "TypeError",
             items |-> <<>>]
      [] loaded.kind = "number" -> [raised |-> "TypeError", items |-> <<>>]
      [] OTHER -> [raised |-> "UnicodeDecodeError", items |-> <<>>]

EmptyStore == [hotels |-> <<>>, customers |-> <<>>, reservations |-> <<>>]

\* HotelReservationSystem.__init__ on the files fs: the lists it makes, and
\* what the first of its three comprehensions to raise raises.
LoadAll(fs) ==
    LET h == Iterate(load_from_file(fs[HOTELS_FILE]))
        c == Iterate(load_from_file(fs[CUSTOMERS_FILE]))
        r == Iterate(load_from_file(fs[RESERVATIONS_FILE]))
    IN  [raised |-> IF h.raised # "none" THEN h.raised
                    ELSE IF c.raised # "none" THEN c.raised
                    ELSE r.raised,
         store |->
            [hotels |-> [i \in DOMAIN h.items |-> Hotel_from_dict(h.items[i])],
             customers |-> [i \in DOMAIN c.items |-> Customer_from_dict(c.items[i])],
             reservations |->
                [i \in DOMAIN r.items |-> Reservation_from_dict(r.items[i])]]]

\* The order in which _save_all writes the files.
SaveOrder == <<HOTELS_FILE, CUSTOMERS_FILE, RESERVATIONS_FILE>>

Dump(self, f) ==
    CASE f = HOTELS_FILE ->
            [i \in DOMAIN self.hotels |-> Hotel_to_dict(self.hotels[i])]
      [] f = CUSTOMERS_FILE ->
            [i \in DOMAIN self.customers |-> Customer_to_dict(self.customers[i])]
      [] f = RESERVATIONS_FILE ->
            [i \in DOMAIN self.reservations |-> Reservation_to_dict(self.reservations[i])]

\* A write that fails: open() failed and the file is as it was ("open"), or
\* open() truncated it and json.dump failed part-way ("write").
FailureModes == {"open", "write"}
FailedWrite(old, mode) == IF mode = "open" THEN old ELSE NotJson

\* HotelReservationSystem._save_all.  failAt = 0: every write succeeds;
\* failAt = k in 1..3: the k-th write raises, the later ones are not made.
save_all_KeepGoing(self, fs, failAt, mode) ==
    [f \in FileNames |->
        IF failAt # 0 /\ SaveOrder[failAt] = f THEN FailedWrite(fs[f], mode)
        ELSE save_to_file(Dump(self, f))]

save_all_Merge(self, fs, failAt, mode) ==
    [f \in FileNames |->
        LET mine == Dump(self, f)
            theirs == IF fs[f].kind = "array" THEN fs[f].items ELSE <<>>
            others == SelectSeq(theirs,
                        LAMBDA d : \A i \in DOMAIN mine : mine[i] # d)
        IN  save_to_file(others \o mine)]

save_all(self, fs, failAt, mode) ==
    [f \in FileNames |->
        LET k == CHOOSE i \in 1..3 : SaveOrder[i] = f
        IN  IF failAt = 0 \/ k < failAt THEN save_to_file(Dump(self, f))
            ELSE IF k = failAt THEN FailedWrite(fs[f], mode)
            ELSE fs[f]]

-----------------------------------------------------------------------------
(* HotelReservationSystem: the methods as functions of the object's lists *)

create_hotel(self, hotel) ==
    [self EXCEPT !.hotels = Append(@, hotel)]

delete_hotel(self, hotel_id) ==
    [self EXCEPT !.hotels = SelectSeq(@, LAMBDA h : h.hotel_id # hotel_id)]

\* The first hotel with the identifier, as a dict; None when there is none.
NotFound == [found |-> FALSE]
Found(d) == [found |-> TRUE, dict |-> d]

display_hotel_Last(self, hotel_id) ==
    LET hits == {i \in DOMAIN self.hotels : self.hotels[i].hotel_id = hotel_id}
    IN  IF hits = {} THEN NotFound
        ELSE Found(Hotel_to_dict(self.hotels[CHOOSE i \in hits : \A j \in hits : i >= j]))

display_hotel(self, hotel_id) ==
    LET hits == {i \in DOMAIN self.hotels : self.hotels[i].hotel_id = hotel_id}
    IN  IF hits = {} THEN NotFound
        ELSE Found(Hotel_to_dict(self.hotels[CHOOSE i \in hits : \A j \in hits : i <= j]))

modify_hotel_NameToLocation(self, hotel_id, name, location, rooms) ==
    [self EXCEPT !.hotels = [i \in DOMAIN @ |->
        IF @[i].hotel_id = hotel_id /\ TruthyStr(name)
        THEN [@[i] EXCEPT !.name = name.v, !.location = name.v] ELSE @[i]]]

modify_hotel(self, hotel_id, name, location, rooms) ==
    LET setName(h) == IF TruthyStr(name) THEN [h EXCEPT !.name = name.v] ELSE h
        setLocation(h) == IF TruthyStr(location) THEN [h EXCEPT !.location = location.v] ELSE h
        setRooms(h) == IF TruthyInt(rooms) THEN [h EXCEPT !.rooms = rooms.v] ELSE h
    IN  [self EXCEPT !.hotels = [i \in DOMAIN @ |->
            IF @[i].hotel_id = hotel_id
            THEN setRooms(setLocation(setName(@[i]))) ELSE @[i]]]

reserve_room_Checked(self, reservation) ==
    IF \E i \in DOMAIN self.hotels : self.hotels[i].hotel_id = reservation.hotel_id
    THEN [self EXCEPT !.reservations = Append(@, reservation)]
    ELSE self

reserve_room(self, reservation) ==
    [self EXCEPT
        !.reservations = Append(@, reservation),
        !.hotels = [i \in DOMAIN @ |->
            IF @[i].hotel_id = reservation.hotel_id
            THEN [@[i] EXCEPT !.reservations = Append(@, reservation.customer_id)]
            ELSE @[i]]]

cancel_reservation_First(self, reservation_id) ==
    LET hits == {i \in DOMAIN self.reservations :
                    self.reservations[i].reservation_id = reservation_id}
        first == CHOOSE i \in hits : \A j \in hits : i <= j
    IN  IF hits = {} THEN self
        ELSE [self EXCEPT !.reservations =
                SubSeq(@, 1, first - 1) \o SubSeq(@, first + 1, Len(@))]

cancel_reservation_ByCustomer(self, reservation_id) ==
    LET gone == {self.reservations[i].customer_id : i \in
                    {j \in DOMAIN self.reservations :
                        self.reservations[j].reservation_id = reservation_id}}
    IN  [self EXCEPT
            !.reservations = SelectSeq(@, LAMBDA r : r.reservation_id # reservation_id),
            !.hotels = [i \in DOMAIN @ |->
                [@[i] EXCEPT !.reservations = SelectSeq(@, LAMBDA cid : cid \notin gone)]]]

cancel_reservation(self, reservation_id) ==
    [self EXCEPT
        !.reservations = SelectSeq(@, LAMBDA r : r.reservation_id # reservation_id),
        !.hotels = [i \in DOMAIN @ |->
            [@[i] EXCEPT !.reservations = SelectSeq(@, LAMBDA cid : cid # reservation_id)]]]

create_customer(self, customer) ==
    [self EXCEPT !.customers = Append(@, customer)]

delete_customer_First(self, customer_id) ==
    LET hits == {i \in DOMAIN self.customers : self.customers[i].customer_id = customer_id}
        first == CHOOSE i \in hits : \A j \in hits : i <= j
    IN  IF hits = {} THEN self
        ELSE [self EXCEPT !.customers =
                SubSeq(@, 1, first - 1) \o SubSeq(@, first + 1, Len(@))]

delete_customer(self, customer_id) ==
    [self EXCEPT !.customers = SelectSeq(@, LAMBDA c : c.customer_id # customer_id)]

display_customer(self, customer_id) ==
    LET hits == {i \in DOMAIN self.customers : self.customers[i].customer_id = customer_id}
    IN  IF hits = {} THEN NotFound
        ELSE Found(Customer_to_dict(self.customers[CHOOSE i \in hits : \A j \in hits : i <= j]))

modify_customer(self, customer_id, name, email) ==
    LET setName(c) == IF TruthyStr(name) THEN [c EXCEPT !.name = name.v] ELSE c
        setEmail(c) == IF TruthyStr(email) THEN [c EXCEPT !.email = email.v] ELSE c
    IN  [self EXCEPT !.customers = [i \in DOMAIN @ |->
            IF @[i].customer_id = customer_id THEN setEmail(setName(@[i])) ELSE @[i]]]

-----------------------------------------------------------------------------
(* Initial file contents *)

\* Files a former run left: a hotel of one room, which customer 2 holds.
SavedHotel == [Hotel(1, "Test Hotel", "Test City", 1) EXCEPT !.reservations = <<2>>]
SavedCustomer == Customer(1, "Test User", "test.user@example.com")
SavedReservation == Reservation(1, 2, 1)

Unreadable ==
    {Missing, NotJson, NotUtf8, JsonNumber, JsonObject(<<>>), JsonObject(<<"hotel_id">>)}

Files(h, c, r) ==
    [f \in FileNames |-> CASE f = HOTELS_FILE -> h
                           [] f = CUSTOMERS_FILE -> c
                           [] f = RESERVATIONS_FILE -> r]

SavedFiles ==
    {Files(h, c, r) :
        h \in {JsonArray(<<>>), JsonArray(<<Hotel_to_dict(SavedHotel)>>)},
        c \in {JsonArray(<<>>), JsonArray(<<Customer_to_dict(SavedCustomer)>>)},
        r \in {JsonArray(<<>>), JsonArray(<<Reservation_to_dict(SavedReservation)>>)}}

\* A first run (no file yet), files a run has saved, or such files with one
\* of them replaced by something load_from_file cannot turn into a list.
InitialFiles ==
    {Files(Missing, Missing, Missing)}
        \cup SavedFiles
        \cup {[fs EXCEPT ![f] = u] : fs \in SavedFiles, f \in FileNames, u \in Unreadable}

-----------------------------------------------------------------------------
(* Actions *)

Init ==
    /\ status = [s \in Instances |-> "absent"]
    /\ sys = [s \in Instances |-> EmptyStore]
    /\ files \in InitialFiles
    /\ lastOp = [op |-> "none"]
    /\ calls = 0

\* system = HotelReservationSystem(): a new object becomes instance s.
Construct(s) ==
    LET loaded == LoadAll(files)
        ok == loaded.raised = "none"
    IN  /\ status' = [status EXCEPT ![s] = IF ok THEN "ready" ELSE "failed"]
        /\ sys' = [sys EXCEPT ![s] = IF ok THEN loaded.store ELSE EmptyStore]
        /\ lastOp' = [op |-> "__init__", inst |-> s, raised |-> loaded.raised]
        /\ UNCHANGED <<files, calls>>

\* A mutating method of instance s: self becomes after, then _save_all runs.
\* faulty: whether a write of this run may fail.  Nothing catches the OSError
\* of a failed write: the run ends with it ("raised"), and the object is used
\* no more; the next run constructs a new one from the files.
Mutate(s, after, call, faulty) ==
    /\ status[s] = "ready"
    /\ calls < (IF faulty THEN MaxFaultyCalls ELSE MaxCalls)
    /\ calls' = calls + 1
    /\ \E failAt \in 0..3, mode \in FailureModes :
        /\ failAt = 0 => mode = "open"
        /\ failAt # 0 => faulty
        /\ sys' = [sys EXCEPT ![s] = after]
        /\ files' = save_all(after, files, failAt, mode)
        /\ lastOp' = [op |-> call.op, inst |-> s, call |-> call,
                      before |-> sys[s], filesBefore |-> files, failAt |-> failAt,
                      raised |-> IF failAt = 0 THEN "none" ELSE "OSError"]
        /\ status' = IF failAt = 0 THEN status ELSE [status EXCEPT ![s] = "raised"]

CreateHotel(s, faulty) ==
    \E hotel \in NewHotels :
        Mutate(s, create_hotel(sys[s], hotel),
               [op |-> "create_hotel", hotel |-> hotel], faulty)

DeleteHotel(s, faulty) ==
    \E hotel_id \in HotelIds :
        Mutate(s, delete_hotel(sys[s], hotel_id),
               [op |-> "delete_hotel", hotel_id |-> hotel_id], faulty)

ModifyHotel(s, faulty) ==
    \E hotel_id \in HotelIds, a \in ModifyHotelCalls :
        Mutate(s, modify_hotel(sys[s], hotel_id, a.name, a.location, a.rooms),
               [op |-> "modify_hotel", hotel_id |-> hotel_id, name |-> a.name,
                location |-> a.location, rooms |-> a.rooms], faulty)

ReserveRoom(s, faulty) ==
    \E reservation \in NewReservations :
        Mutate(s, reserve_room(sys[s], reservation),
               [op |-> "reserve_room", reservation |-> reservation], faulty)

CancelReservation(s, faulty) ==
    \E reservation_id \in ReservationIds :
        Mutate(s, cancel_reservation(sys[s], reservation_id),
               [op |-> "cancel_reservation", reservation_id |-> reservation_id], faulty)

CreateCustomer(s, faulty) ==
    \E customer \in NewCustomers :
        Mutate(s, create_customer(sys[s], customer),
               [op |-> "create_customer", customer |-> customer], faulty)

DeleteCustomer(s, faulty) ==
    \E customer_id \in CustomerIds :
        Mutate(s, delete_customer(sys[s], customer_id),
               [op |-> "delete_customer", customer_id |-> customer_id], faulty)

ModifyCustomer(s, faulty) ==
    \E customer_id \in CustomerIds, a \in ModifyCustomerCalls :
        Mutate(s, modify_customer(sys[s], customer_id, a.name, a.email),
               [op |-> "modify_customer", customer_id |-> customer_id,
                name |-> a.name, email |-> a.email], faulty)

\* One process with one store object; any write may fail.
Next ==
    \/ Construct(1)
    \/ CreateHotel(1, TRUE)
    \/ DeleteHotel(1, TRUE)
    \/ ModifyHotel(1, TRUE)
    \/ ReserveRoom(1, TRUE)
    \/ CancelReservation(1, TRUE)
    \/ CreateCustomer(1, TRUE)
    \/ DeleteCustomer(1, TRUE)
    \/ ModifyCustomer(1, TRUE)

Spec == Init /\ [][Next]_vars

\* The hotel and reservation methods alone, every write succeeding.
NextHotels ==
    \/ Construct(1)
    \/ CreateHotel(1, FALSE)
    \/ DeleteHotel(1, FALSE)
    \/ ModifyHotel(1, FALSE)
    \/ ReserveRoom(1, FALSE)
    \/ CancelReservation(1, FALSE)

SpecHotels == Init /\ [][NextHotels]_vars

\* The same methods in a first run, which finds no file: the store starts empty.
InitEmpty ==
    /\ Init
    /\ files = Files(Missing, Missing, Missing)

NextEmpty ==
    \/ Construct(1)
    \/ CreateHotel(1, FALSE)
    \/ DeleteHotel(1, FALSE)
    \/ ModifyHotel(1, FALSE)
    \/ ReserveRoom(1, FALSE)
    \/ CancelReservation(1, FALSE)
    \/ CreateCustomer(1, FALSE)
    \/ DeleteCustomer(1, FALSE)
    \/ ModifyCustomer(1, FALSE)

SpecEmpty == InitEmpty /\ [][NextEmpty]_vars

\* The customer methods alone, every write succeeding.
NextCustomers ==
    \/ Construct(1)
    \/ CreateCustomer(1, FALSE)
    \/ DeleteCustomer(1, FALSE)
    \/ ModifyCustomer(1, FALSE)

SpecCustomers == Init /\ [][NextCustomers]_vars

\* Two store objects over the same three files, as each test's setUp makes a
\* new one over the files the earlier left: their calls interleave, each
\* running to its end with every write succeeding.
NextShared ==
    \E s \in Instances :
        \/ Construct(s)
        \/ /\ calls < MaxSharedCalls
           /\ \/ CreateHotel(s, FALSE)
              \/ DeleteHotel(s, FALSE)
              \/ ModifyHotel(s, FALSE)
              \/ ReserveRoom(s, FALSE)
              \/ CancelReservation(s, FALSE)
              \/ CreateCustomer(s, FALSE)
              \/ DeleteCustomer(s, FALSE)
              \/ ModifyCustomer(s, FALSE)

SpecShared == InitEmpty /\ [][NextShared]_vars

-----------------------------------------------------------------------------
(* Properties *)

\* The object the last call was made on, and what the call was.
Self == sys[lastOp.inst]
Called(op) == lastOp.op = op
Returned == lastOp.raised = "none"

\* The elements of seq that Drop does not hold of, in their order.
Remaining(seq, Drop(_)) ==
    LET kept == {i \in DOMAIN seq : ~Drop(seq[i])}
        nth(k) == CHOOSE i \in kept : Cardinality({j \in kept : j < i}) = k - 1
    IN  [k \in 1..Cardinality(kept) |-> seq[nth(k)]]

HotelsWithId(self, hotel_id) ==
    {i \in DOMAIN self.hotels : self.hotels[i].hotel_id = hotel_id}
CustomersWithId(self, customer_id) ==
    {i \in DOMAIN self.customers : self.customers[i].customer_id = customer_id}
ReservationsWithId(self, reservation_id) ==
    {i \in DOMAIN self.reservations : self.reservations[i].reservation_id = reservation_id}

\* C1 as claimed: in every state of the store, after create_hotel(h),
\* display_hotel(h.hotel_id) returns the fields of h.
C1_DisplayReturnsCreated ==
    Called("create_hotel") =>
        display_hotel(Self, lastOp.call.hotel.hotel_id)
            = Found(Hotel_to_dict(lastOp.call.hotel))

\* C1 amended: after create_hotel(h), h is the last hotel of the list, and
\* display_hotel(h.hotel_id) returns the fields of h when no hotel had that
\* identifier before the call, and otherwise the fields of the first hotel
\* that had it, as it returned before the call.
C1_DisplayReturnsFirstCreated ==
    Called("create_hotel") =>
        LET h == lastOp.call.hotel
            was == display_hotel(lastOp.before, h.hotel_id)
        IN  /\ Self.hotels = lastOp.before.hotels \o <<h>>
            /\ display_hotel(Self, h.hotel_id)
                 = IF was = NotFound THEN Found(Hotel_to_dict(h)) ELSE was

\* create_hotel(h) in a store that holds other hotels, none with h's
\* identifier: display_hotel finds h.
C1_Witness ==
    /\ Called("create_hotel")
    /\ lastOp.before.hotels # <<>>
    /\ HotelsWithId(lastOp.before, lastOp.call.hotel.hotel_id) = {}
    /\ display_hotel(Self, lastOp.call.hotel.hotel_id) = Found(Hotel_to_dict(lastOp.call.hotel))

\* C2: after delete_customer(id), display_customer(id) returns None, the call
\* raising nothing whether or not a customer matched; and display_customer(id)
\* goes from None to a record only by create_customer of a customer with
\* that identifier (a new object made from the files finds none either).
C2_DeletedCustomerNotFound ==
    /\ Called("delete_customer") =>
          /\ display_customer(Self, lastOp.call.customer_id) = NotFound
          /\ Returned
    /\ \A id \in CustomerIds :
          (/\ lastOp.op \in {"create_customer", "delete_customer", "modify_customer"}
           /\ display_customer(lastOp.before, id) = NotFound
           /\ display_customer(Self, id) # NotFound)
              => (Called("create_customer") /\ lastOp.call.customer.customer_id = id)
    /\ (status[1] = "ready" /\ calls > 0) =>
          \A id \in CustomerIds :
              display_customer(sys[1], id) = NotFound
                  => display_customer(LoadAll(files).store, id) = NotFound

\* delete_customer(id) on a store holding two customers with that identifier.
C2_Witness ==
    /\ Called("delete_customer")
    /\ Cardinality(CustomersWithId(lastOp.before, lastOp.call.customer_id)) >= 2
    /\ display_customer(Self, lastOp.call.customer_id) = NotFound

\* C3: modify_hotel(id, name=n) with a non-empty n and no other argument
\* sets the name of every hotel with identifier id to n and changes nothing
\* else: no other field of those hotels, no other hotel, no customer, no
\* reservation.
C3_ModifyNameOnly ==
    (/\ Called("modify_hotel")
     /\ TruthyStr(lastOp.call.name)
     /\ lastOp.call.location = NoneStr
     /\ lastOp.call.rooms = NoneInt)
        => /\ Len(Self.hotels) = Len(lastOp.before.hotels)
           /\ \A i \in DOMAIN lastOp.before.hotels :
                LET old == lastOp.before.hotels[i]
                    new == Self.hotels[i]
                IN  /\ new.hotel_id = old.hotel_id
                    /\ new.location = old.location
                    /\ new.rooms = old.rooms
                    /\ new.reservations = old.reservations
                    /\ new.name = IF old.hotel_id = lastOp.call.hotel_id
                                  THEN lastOp.call.name.v ELSE old.name
           /\ Self.customers = lastOp.before.customers
           /\ Self.reservations = lastOp.before.reservations

\* modify_hotel(id, name=n) on a store with a hotel id whose name is not n,
\* another hotel, a customer and a reservation.
C3_Witness ==
    /\ Called("modify_hotel")
    /\ TruthyStr(lastOp.call.name)
    /\ lastOp.call.location = NoneStr
    /\ lastOp.call.rooms = NoneInt
    /\ \E i \in HotelsWithId(lastOp.before, lastOp.call.hotel_id) :
          /\ lastOp.before.hotels[i].name # lastOp.call.name.v
          /\ lastOp.before.hotels[i].reservations # <<>>
    /\ \E i \in DOMAIN Self.hotels : Self.hotels[i].hotel_id # lastOp.call.hotel_id
    /\ Self.customers # <<>>
    /\ Self.reservations # <<>>

\* C4: reserve_room(r) returns without raising and leaves the reservation
\* list as it was with r appended, so a reservation with r's identifier is
\* in it, whatever hotels and customers the store holds.
C4_ReserveAppends ==
    Called("reserve_room") =>
        /\ Returned
        /\ Self.reservations = lastOp.before.reservations \o <<lastOp.call.reservation>>
        /\ ReservationsWithId(Self, lastOp.call.reservation.reservation_id) # {}

\* reserve_room(r) where the hotel of r already has as many reservations as
\* rooms and no customer has r's customer identifier.
C4_Witness ==
    /\ Called("reserve_room")
    /\ \E i \in HotelsWithId(lastOp.before, lastOp.call.reservation.hotel_id) :
          Len(lastOp.before.hotels[i].reservations) >= lastOp.before.hotels[i].rooms
    /\ CustomersWithId(lastOp.before, lastOp.call.reservation.customer_id) = {}
    /\ ReservationsWithId(Self, lastOp.call.reservation.reservation_id) # {}

\* reserve_room(r) where no hotel has r's hotel identifier.
C4_WitnessNoHotel ==
    /\ Called("reserve_room")
    /\ HotelsWithId(lastOp.before, lastOp.call.reservation.hotel_id) = {}
    /\ ReservationsWithId(Self, lastOp.call.reservation.reservation_id) # {}

\* C5: after cancel_reservation(id) no reservation has identifier id, and the
\* reservation list is the former one without those that had it, the others
\* in their order.
C5_CancelRemovesAll ==
    Called("cancel_reservation") =>
        /\ ReservationsWithId(Self, lastOp.call.reservation_id) = {}
        /\ Self.reservations
             = Remaining(lastOp.before.reservations,
                         LAMBDA r : r.reservation_id = lastOp.call.reservation_id)

\* cancel_reservation(id) on a store with two reservations id and another one.
C5_Witness ==
    /\ Called("cancel_reservation")
    /\ Cardinality(ReservationsWithId(lastOp.before, lastOp.call.reservation_id)) >= 2
    /\ Self.reservations # <<>>

\* The mutating methods.
Mutators ==
    {"create_hotel", "delete_hotel", "modify_hotel", "reserve_room",
     "cancel_reservation", "create_customer", "delete_customer", "modify_customer"}

\* What the lists of an object are after a call of a mutating method.
Apply(self, call) ==
    CASE call.op = "create_hotel" -> create_hotel(self, call.hotel)
      [] call.op = "delete_hotel" -> delete_hotel(self, call.hotel_id)
      [] call.op = "modify_hotel" ->
            modify_hotel(self, call.hotel_id, call.name, call.location, call.rooms)
      [] call.op = "reserve_room" -> reserve_room(self, call.reservation)
      [] call.op = "cancel_reservation" -> cancel_reservation(self, call.reservation_id)
      [] call.op = "create_customer" -> create_customer(self, call.customer)
      [] call.op = "delete_customer" -> delete_customer(self, call.customer_id)
      [] call.op = "modify_customer" ->
            modify_customer(self, call.customer_id, call.name, call.email)

\* The file f holds the list of self that belongs in it.
Holds(f, self) == files[f] = JsonArray(Dump(self, f))

\* C6: after a mutating call whose writes all succeeded, each of the three
\* files holds the object's list of that kind, and a store constructed from
\* the files has the same hotels (reservations lists included), customers and
\* reservations, in the same order.
C6_RestartEquivalence ==
    (lastOp.op \in Mutators /\ Returned) =>
        /\ \A f \in FileNames : Holds(f, Self)
        /\ LoadAll(files).raised = "none"
        /\ LoadAll(files).store = Self

\* A call that succeeded on a store with a hotel that has reservations, a
\* customer and a reservation, the files having been stale before it.
C6_Witness ==
    /\ lastOp.op \in Mutators /\ Returned
    /\ \E i \in DOMAIN Self.hotels : Self.hotels[i].reservations # <<>>
    /\ Self.customers # <<>>
    /\ Self.reservations # <<>>
    /\ \E f \in FileNames : lastOp.filesBefore[f] # JsonArray(Dump(lastOp.before, f))
    /\ LoadAll(files).store = Self

\* The list __init__ makes of file f.
ListOf(self, f) ==
    CASE f = HOTELS_FILE -> self.hotels
      [] f = CUSTOMERS_FILE -> self.customers
      [] f = RESERVATIONS_FILE -> self.reservations

\* C7: __init__ does not raise over files that are missing, are not JSON,
\* or are JSON but no array: each such file gives an empty list, and the
\* files that hold an array give a list of as many records.
C7_ConstructNeverFails ==
    (/\ Called("__init__")
     /\ \A f \in FileNames :
           files[f].kind \in {"missing", "notjson", "number", "object", "array"})
        => /\ Returned
           /\ status[lastOp.inst] = "ready"
           /\ \A f \in FileNames :
                 IF files[f].kind = "array"
                 THEN Len(ListOf(Self, f)) = Len(files[f].items)
                 ELSE ListOf(Self, f) = <<>>

\* The part of C7 the code keeps: over files that are missing, are text that
\* is not JSON, or hold an array, __init__ returns, with an empty list for
\* each file that holds no array.
C7_MissingOrNotJsonLoadsEmpty ==
    (/\ Called("__init__")
     /\ \A f \in FileNames : files[f].kind \in {"missing", "notjson", "array"})
        => /\ Returned
           /\ \A f \in FileNames :
                 IF files[f].kind = "array"
                 THEN Len(ListOf(Self, f)) = Len(files[f].items)
                 ELSE ListOf(Self, f) = <<>>

\* C8: a call during which the k-th write fails raises the OSError and ends;
\* the object's lists are those the call made, the files written before the
\* k-th hold those lists, and the files after the k-th are as before the call.
C8_WriteFailureSurfaces ==
    (lastOp.op \in Mutators /\ lastOp.failAt # 0) =>
        /\ lastOp.raised = "OSError"
        /\ status[lastOp.inst] = "raised"
        /\ Self = Apply(lastOp.before, lastOp.call)
        /\ \A k \in 1..3 :
              /\ k < lastOp.failAt => Holds(SaveOrder[k], Self)
              /\ k > lastOp.failAt => files[SaveOrder[k]] = lastOp.filesBefore[SaveOrder[k]]
              /\ k = lastOp.failAt =>
                    files[SaveOrder[k]] \in {lastOp.filesBefore[SaveOrder[k]], NotJson}

\* The write of customers.json fails in a call that changed the hotels and the
\* reservations: hotels.json has the new list, reservations.json the old one.
C8_Witness ==
    /\ lastOp.op \in Mutators /\ lastOp.failAt = 2
    /\ lastOp.raised = "OSError"
    /\ Self.hotels # lastOp.before.hotels
    /\ Self.reservations # lastOp.before.reservations
    /\ Holds(HOTELS_FILE, Self)
    /\ files[HOTELS_FILE] # lastOp.filesBefore[HOTELS_FILE]
    /\ ~Holds(RESERVATIONS_FILE, Self)
    /\ files[RESERVATIONS_FILE] = lastOp.filesBefore[RESERVATIONS_FILE]

\* The customer identifiers of the reservations at the hotel, in their order.
CustomersHolding(self, hotel_id) ==
    LET held == Remaining(self.reservations, LAMBDA r : r.hotel_id # hotel_id)
    IN  [k \in DOMAIN held |-> held[k].customer_id]

\* C9: in a store that started empty, the reservations list of each hotel is
\* the customer identifiers of the reservations now held at that hotel.
C9_HotelListMatchesReservations ==
    status[1] = "ready" =>
        \A i \in DOMAIN sys[1].hotels :
            sys[1].hotels[i].reservations
                = CustomersHolding(sys[1], sys[1].hotels[i].hotel_id)

\* The store started empty, a hotel was created, and cancel_reservation(id)
\* removed the only reservation: none is left, and the hotel still lists the
\* customer of the cancelled one.
C9_CancelLeavesCustomer ==
    /\ Called("cancel_reservation")
    /\ ReservationsWithId(lastOp.before, lastOp.call.reservation_id) # {}
    /\ Self.reservations = <<>>
    /\ \E i \in DOMAIN Self.hotels : Self.hotels[i].reservations # <<>>

\* How often x is in seq.
Count(seq, x) == Cardinality({i \in DOMAIN seq : seq[i] = x})

\* C10: cancel_reservation(id) leaves each hotel with its former reservations
\* list without the entries equal to id, the others in their order, and
\* changes no other field of a hotel; the customer identifier of a cancelled
\* reservation, when it is not id, is in the list of its hotel as often as before.
C10_CancelFiltersListsById ==
    Called("cancel_reservation") =>
        LET id == lastOp.call.reservation_id
        IN  /\ Len(Self.hotels) = Len(lastOp.before.hotels)
            /\ \A i \in DOMAIN lastOp.before.hotels :
                LET old == lastOp.before.hotels[i]
                    new == Self.hotels[i]
                IN  /\ new = [old EXCEPT !.reservations =
                                Remaining(old.reservations, LAMBDA cid : cid = id)]
                    /\ \A j \in ReservationsWithId(lastOp.before, id) :
                          LET r == lastOp.before.reservations[j]
                          IN  (r.hotel_id = old.hotel_id /\ r.customer_id # id)
                                 => Count(new.reservations, r.customer_id)
                                       = Count(old.reservations, r.customer_id)

\* cancel_reservation(id) of a reservation whose customer is not id: the
\* reservation is gone and its customer is still in the list of its hotel,
\* while an entry equal to id has left the list.
C10_Witness ==
    /\ Called("cancel_reservation")
    /\ \E j \in ReservationsWithId(lastOp.before, lastOp.call.reservation_id) :
          LET r == lastOp.before.reservations[j]
          IN  /\ r.customer_id # lastOp.call.reservation_id
              /\ \E i \in HotelsWithId(Self, r.hotel_id) :
                    /\ Count(Self.hotels[i].reservations, r.customer_id) > 0
                    /\ Len(Self.hotels[i].reservations)
                          < Len(lastOp.before.hotels[i].reservations)

\* C11: in modify_hotel and modify_customer an argument that is None or falsy
\* (the empty string, rooms = 0) leaves its field as it was in every record,
\* the matching ones included; so after modify_hotel no hotel has 0 rooms, an
\* empty name or an empty location that it did not have before the call.
C11_FalsyArgumentKeepsField ==
    /\ Called("modify_hotel") =>
          /\ Len(Self.hotels) = Len(lastOp.before.hotels)
          /\ \A i \in DOMAIN lastOp.before.hotels :
                LET old == lastOp.before.hotels[i]
                    new == Self.hotels[i]
                IN  /\ ~TruthyStr(lastOp.call.name) => new.name = old.name
                    /\ ~TruthyStr(lastOp.call.location) => new.location = old.location
                    /\ (~lastOp.call.rooms.some \/ lastOp.call.rooms.v = 0)
                          => new.rooms = old.rooms
                    /\ new.rooms = 0 => old.rooms = 0
                    /\ new.name = "" => old.name = ""
                    /\ new.location = "" => old.location = ""
    /\ Called("modify_customer") =>
          /\ Len(Self.customers) = Len(lastOp.before.customers)
          /\ \A i \in DOMAIN lastOp.before.customers :
                LET old == lastOp.before.customers[i]
                    new == Self.customers[i]
                IN  /\ ~TruthyStr(lastOp.call.name) => new.name = old.name
                    /\ ~TruthyStr(lastOp.call.email) => new.email = old.email

\* modify_hotel(id, name="", location="", rooms=0) on a store that has a
\* hotel id.
C11_Witness ==
    /\ Called("modify_hotel")
    /\ lastOp.call.name = Some("")
    /\ lastOp.call.location = Some("")
    /\ lastOp.call.rooms = Some(0)
    /\ HotelsWithId(lastOp.before, lastOp.call.hotel_id) # {}

\* modify_customer(id, name="", email="") on a store that has a customer id.
C11_WitnessCustomer ==
    /\ Called("modify_customer")
    /\ lastOp.call.name = Some("")
    /\ lastOp.call.email = Some("")
    /\ CustomersWithId(lastOp.before, lastOp.call.customer_id) # {}

\* The elements of a sequence.
Range(seq) == {seq[i] : i \in DOMAIN seq}

\* The records file f held before the last call that the caller's list did
\* not have, before the call or after it: another object wrote them.
WrittenByOther(f) ==
    IF lastOp.filesBefore[f].kind # "array" THEN {}
    ELSE Range(lastOp.filesBefore[f].items)
            \ (Range(Dump(lastOp.before, f)) \cup Range(Dump(Self, f)))

\* C12: with two objects on the same files, after every mutating call (its
\* writes succeeding) each of the three files holds the calling object's
\* list and nothing else, so a record that only the other object had written
\* is in no file any more and in no store constructed from the files; and a
\* store just constructed has what the files hold.
C12_LastWriterWins ==
    /\ (lastOp.op \in Mutators /\ Returned) =>
          /\ Self = Apply(lastOp.before, lastOp.call)
          /\ \A f \in FileNames :
                /\ files[f].kind = "array"
                /\ files[f].items = Dump(Self, f)
                /\ \A d \in WrittenByOther(f) :
                      /\ d \notin Range(files[f].items)
                      /\ d \notin Range(Dump(LoadAll(files).store, f))
    /\ (Called("__init__") /\ Returned) => Self = LoadAll(files).store

\* A lost update: the other object, still holding the record, had written it
\* to a file after the caller was constructed; the caller's call has
\* removed it from the file, and a store constructed now does not have it.
C12_Witness ==
    /\ lastOp.op \in Mutators /\ Returned
    /\ \E t \in Instances \ {lastOp.inst}, f \in FileNames :
          /\ status[t] = "ready"
          /\ \E d \in WrittenByOther(f) :
                /\ d \in Range(Dump(sys[t], f))
                /\ d \notin Range(files[f].items)
                /\ d \notin Range(Dump(LoadAll(files).store, f))

====
